---- MODULE Spec2Model ----
(***************************************************************************)
(* A model of TAhoCorasick (src/main.cpp): the compacted alphabet, the     *)
(* trie built by Reset, the lazily resolved suffix links and transition    *)
(* rows kept in the shared array Ways, and the query surface.              *)
(*                                                                         *)
(* C++ containers are 0-based; the sequences below are 1-based, so the     *)
(* element i of a vector V is V[i + 1].  Symbols are byte values.          *)
(***************************************************************************)
EXTENDS Integers, Sequences, FiniteSets, TLC

VARIABLES
    words,      \* the pattern collection given to the constructor or to the latest Reset
    built,      \* TRUE once Reset has run on this object (FALSE after TAhoCorasick())
    charSigned, \* the build's signedness of plain char (implementation-defined)
    symbols,    \* the symbol values the caller passes to GetState / SwitchState
    CodeSize,   \* member CodeSize
    CodeMap,    \* member CodeMap
    Tree,       \* member Tree
    Ways,       \* member Ways
    state,      \* the TState the caller holds (the latest one handed out)
    op,         \* the latest operation
    arg,        \* its arguments
    ret,        \* its results
    nq,         \* number of queries since the latest Reset
    nr,         \* number of Reset calls made on the object after its construction
    fault,      \* "none", or the undefined behaviour / failed assertion that ended the run
    threads     \* two callers inside SwitchState at once (NoThreads where there are none)

vars == <<words, built, charSigned, symbols, CodeSize, CodeMap, Tree, Ways,
          state, op, arg, ret, nq, nr, fault, threads>>

---------------------------------------------------------------------------
(* Bounds of the model *)

MaxWords == 2       \* patterns per enumerated pattern set
MaxWordLen == 2     \* symbols per enumerated pattern
MaxTextLen == 3     \* symbols per enumerated query string
MaxQueries == 2     \* queries between two Resets
MaxResets == 1      \* Resets after construction
MaxWalk == 4        \* calls of a caller that walks the automaton by hand
MaxFrames == 16     \* calls in progress at which a traced run is cut off

(* Program constants *)

NumChars == 256     \* 1 << (8 * sizeof(char)), the size of CodeMap

(* A value of CodeMap that was never written (TAhoCorasick() does not fill it). *)
Uninit == -2

(* Symbols: 'a' 'b' for the enumerated patterns, 'Z' in no enumerated      *)
(* pattern.  Patterns and query strings use symbols below 128 only.        *)
PatSyms == {97, 98}
TextSyms == {97, 98, 90}
(* a byte above 127: a negative value where char is signed *)
HighSyms == {200}

RECURSIVE SeqsUpTo(_, _)
SeqsUpTo(S, n) ==
    IF n = 0 THEN {<< >>}
    ELSE LET shorter == SeqsUpTo(S, n - 1)
         IN shorter \cup {Append(s, x) : s \in {t \in shorter : Len(t) = n - 1}, x \in S}

(* main()'s pattern set and query strings (src/main.cpp 205-256), and the   *)
(* two texts of the specification's scenarios.                              *)
MainStrings == << <<97, 98, 99, 100>>, <<98, 99, 100, 101>>, <<99, 100, 101, 102>> >>
MainNonStrings ==
    { <<97, 97, 98, 99, 100>>, <<97, 98, 99, 100, 100>>, <<97, 98, 99, 100, 97>>,
      <<97, 98, 99>>, <<98, 99, 100>>, <<99, 100, 101>>, <<100, 101, 102>>,
      <<97, 98, 99, 100, 65>>, <<98, 99, 100, 101, 66>>, <<99, 100, 101, 102, 67>>,
      <<65, 97, 98, 99, 100>>, <<66, 98, 99, 100, 101>>, <<67, 99, 100, 101, 102>> }
MainPrefixes == { <<97, 98, 99>>, <<98, 99, 100>>, <<99, 100, 101>> }
Rep(x, n) == [i \in 1..n |-> x]
MainTexts ==
    { Rep(90, 21) \o <<97, 98, 99, 100>>,
      <<98, 99, 100, 101>> \o Rep(88, 18),
      Rep(90, 6) \o <<99, 100, 101, 102>> \o Rep(88, 8),
      Rep(90, 6) \o <<98, 99, 100, 101, 102>> \o Rep(88, 8),
      Rep(90, 6) \o <<97, 98, 99, 100, 101, 102>> \o Rep(88, 8),
      <<97, 98, 99, 100, 101, 102>>,
      <<90, 90, 98, 99, 100, 101, 88, 88>> }

Patterns == SeqsUpTo(PatSyms, MaxWordLen)
(* a pattern inside another one: "b" ends inside "aba" *)
NestedStrings == << <<97, 98, 97>>, <<98>> >>
PatternSets == SeqsUpTo(Patterns, MaxWords) \cup {MainStrings, NestedStrings}
Strings == SeqsUpTo(TextSyms, MaxTextLen)
RangeOf(s) == {s[i] : i \in 1..Len(s)}
MainSyms == UNION {RangeOf(s) : s \in MainNonStrings \cup MainTexts}

---------------------------------------------------------------------------
(* TNode and TState *)

TNode == [Next |-> -1, Go |-> -1, IsLeaf |-> -1, ParentCode |-> 0,
          Parent |-> -1, SuffLink |-> -1, Depth |-> 0]

TState(idx, depth, leaf) == [Idx |-> idx, Depth |-> depth, Leaf |-> leaf]
DefaultState == TState(0, 0, -1)
IsRoot(s) == s.Idx = 0
IsNextTo_NotRoot(s, t) == s.Depth > 0
IsNextTo(s, t) == s.Depth = t.Depth + 1
IsLeaf(s) == s.Leaf >= 0

(* The members of the object as one record, threaded through the calls.    *)
(* Fault records a failed assertion or an undefined read met on the way.   *)
Members ==
    [CodeSize |-> CodeSize, CodeMap |-> CodeMap, Tree |-> Tree, Ways |-> Ways,
     Fault |-> "none"]

(* CodeMap[c]: the char c converted to the array's size_type index.  A     *)
(* negative char converts to a value near 2^64, outside the array; the     *)
(* model keeps the negative value, which is outside 0..NumChars-1 as well. *)
CharOf(b) == IF charSigned /\ b >= 128 THEN b - NumChars ELSE b
CodeMapIndex(b) == CharOf(b)
InCodeMap(i) == i >= 0 /\ i < NumChars

Row(n) == [i \in 1..n |-> -1]

(* F applied to the value of e: e is evaluated once, as a C++ local is.    *)
Bind(e, F(_)) == CHOOSE r \in {F(x) : x \in {e}} : TRUE

---------------------------------------------------------------------------
(* Reset *)

ClearMembers_KeepWays(m) ==
    [CodeSize |-> 0,
     CodeMap |-> [i \in 0..(NumChars - 1) |-> -1],
     Tree |-> <<TNode>>,
     Ways |-> m.Ways,
     Fault |-> m.Fault]

ClearMembers(m) ==
    [CodeSize |-> 0,
     CodeMap |-> [i \in 0..(NumChars - 1) |-> -1],
     Tree |-> <<TNode>>,
     Ways |-> << >>,
     Fault |-> m.Fault]

(* AssignCodes: the loop of lines 69-76, at pattern wi, symbol ci (1-based) *)
AssignCode(m, c) ==
    LET i == CodeMapIndex(c)
    IN IF m.CodeMap[i] = -1
       THEN [m EXCEPT !.CodeMap[i] = m.CodeSize, !.CodeSize = m.CodeSize + 1]
       ELSE m

RECURSIVE AssignCodes(_, _, _, _)
AssignCodes(m, ws, wi, ci) ==
    IF wi > Len(ws) THEN m
    ELSE IF ci > Len(ws[wi]) THEN AssignCodes(m, ws, wi + 1, 1)
    ELSE Bind(AssignCode(m, ws[wi][ci]), LAMBDA m1 : AssignCodes(m1, ws, wi, ci + 1))

(* One iteration of the loop of lines 81-100: the members and curPos after it *)
InsertChar(m, w, chPos, curPos) ==
    LET code == m.CodeMap[CodeMapIndex(w[chPos + 1])]
        m1 == IF m.Tree[curPos + 1].Next = -1
              THEN [m EXCEPT !.Tree[curPos + 1].Next = Len(m.Ways),
                             !.Ways = m.Ways \o Row(m.CodeSize)]
              ELSE m
        off == m1.Tree[curPos + 1].Next + code
        m2 == IF m1.Ways[off + 1] = -1
              THEN [m1 EXCEPT !.Ways[off + 1] = Len(m1.Tree),
                              !.Tree = Append(m1.Tree,
                                  [TNode EXCEPT !.Parent = curPos,
                                                !.ParentCode = code,
                                                !.Depth = chPos + 1])]
              ELSE m1
    IN [m |-> m2, curPos |-> m2.Ways[off + 1]]

RECURSIVE InsertWord(_, _, _, _, _)
(* every node on the way marked with the pattern's index *)
InsertWord_MarkPath(m, w, wordIdx, chPos, curPos) ==
    IF chPos >= Len(w)
    THEN [m EXCEPT !.Tree[curPos + 1].IsLeaf = wordIdx]
    ELSE Bind(InsertChar([m EXCEPT !.Tree[curPos + 1].IsLeaf = wordIdx], w, chPos, curPos),
              LAMBDA r : InsertWord(r.m, w, wordIdx, chPos + 1, r.curPos))

InsertWord(m, w, wordIdx, chPos, curPos) ==
    IF chPos >= Len(w)
    THEN [m EXCEPT !.Tree[curPos + 1].IsLeaf = wordIdx]
    ELSE Bind(InsertChar(m, w, chPos, curPos),
              LAMBDA r : InsertWord(r.m, w, wordIdx, chPos + 1, r.curPos))

RECURSIVE InsertWords(_, _, _)
InsertWords(m, ws, wordIdx) ==
    IF wordIdx >= Len(ws) THEN m
    ELSE Bind(InsertWord(m, ws[wordIdx + 1], wordIdx, 0, 0),
              LAMBDA m1 : InsertWords(m1, ws, wordIdx + 1))

ResetMembers(m, ws) ==
    Bind(AssignCodes(ClearMembers(m), ws, 1, 1), LAMBDA m1 : InsertWords(m1, ws, 0))

---------------------------------------------------------------------------
(* The lazily resolved suffix links and transitions *)

Result(m, r) == [m |-> m, ret |-> r]
(* A failed assertion ends the run; an undefined read does not, and an     *)
(* assertion may fail after it.                                            *)
Asserts == {"assert IsLeaf()", "assert code < CodeSize", "assert SuffLink >= 0"}
Failed(m, what) ==
    [m EXCEPT !.Fault = IF m.Fault = "none" \/ (m.Fault \notin Asserts /\ what \in Asserts)
                        THEN what ELSE m.Fault]

StateOf(m, idx) == TState(idx, m.Tree[idx + 1].Depth, m.Tree[idx + 1].IsLeaf)

RECURSIVE GetLink(_, _)
RECURSIVE SwitchStateCode(_, _, _)

(* the link of a node taken to be the link of its parent *)
GetLink_ParentLink(m, s) ==
    LET v == s.Idx
        node == m.Tree[v + 1]
        Return(m1) ==
            LET link == m1.Tree[v + 1].SuffLink
            IN IF link >= 0
               THEN Result(m1, TState(link, m1.Tree[v + 1].Depth, m1.Tree[link + 1].IsLeaf))
               ELSE Result(Failed(m1, "assert SuffLink >= 0"), DefaultState)
    IN IF node.SuffLink = -1
       THEN IF v = 0 \/ node.Parent = 0
            THEN Return([m EXCEPT !.Tree[v + 1].SuffLink = 0])
            ELSE Bind(GetLink(m, TState(node.Parent, 0, -1)), LAMBDA up :
                 Return([up.m EXCEPT !.Tree[v + 1].SuffLink = up.ret.Idx]))
       ELSE Return(m)

GetLink(m, s) ==
    LET v == s.Idx
        node == m.Tree[v + 1]
        Return(m1) ==
            LET link == m1.Tree[v + 1].SuffLink
            IN IF link >= 0
               THEN Result(m1, TState(link, m1.Tree[v + 1].Depth, m1.Tree[link + 1].IsLeaf))
               ELSE Result(Failed(m1, "assert SuffLink >= 0"), DefaultState)
    IN IF node.SuffLink = -1
       THEN IF v = 0 \/ node.Parent = 0
            THEN Return([m EXCEPT !.Tree[v + 1].SuffLink = 0])
            ELSE Bind(GetLink(m, TState(node.Parent, 0, -1)), LAMBDA up :
                 Bind(SwitchStateCode(up.m, node.ParentCode, up.ret), LAMBDA to :
                 Return([to.m EXCEPT !.Tree[v + 1].SuffLink = to.ret.Idx])))
       ELSE Return(m)

Fallback_NoStep(m, code, v) == GetLink(m, v)

Fallback_ToRoot(m, code, v) == Result(m, DefaultState)

(* line 187, the suffix-link branch: SwitchStateCode(code, GetLink(v)) *)
Fallback(m, code, v) ==
    Bind(GetLink(m, v), LAMBDA lk : SwitchStateCode(lk.m, code, lk.ret))

(* a fresh row appended at every call, the node's earlier row dropped *)
AllocGo_Again(m, n) ==
    [m EXCEPT !.Tree[n].Go = Len(m.Ways), !.Ways = m.Ways \o Row(m.CodeSize)]

(* lines 178-181: the node's row of resolved transitions, appended to Ways *)
AllocGo(m, n) ==
    IF m.Tree[n].Go = -1
    THEN [m EXCEPT !.Tree[n].Go = Len(m.Ways), !.Ways = m.Ways \o Row(m.CodeSize)]
    ELSE m

(* a missing edge resolved from the root's row, whatever the node's link *)
ResolveCell_SkipLink(m1, code, v) ==
    LET n == v.Idx + 1
        goOffset == m1.Tree[n].Go + code
        nextOffset == m1.Tree[n].Next + code
    IN IF m1.Ways[goOffset + 1] = -1
       THEN IF m1.Tree[n].Next = -1 \/ m1.Ways[nextOffset + 1] = -1
            THEN IF IsRoot(v)
                 THEN [m1 EXCEPT !.Ways[goOffset + 1] = 0]
                 ELSE Bind(SwitchStateCode(m1, code, DefaultState), LAMBDA to :
                           [to.m EXCEPT !.Ways[goOffset + 1] = to.ret.Idx])
            ELSE [m1 EXCEPT !.Ways[goOffset + 1] = m1.Ways[nextOffset + 1]]
       ELSE m1

(* lines 183-191: the cell (v, code) of the row, resolved if it is absent *)
ResolveCell(m1, code, v) ==
    LET n == v.Idx + 1
        goOffset == m1.Tree[n].Go + code
        nextOffset == m1.Tree[n].Next + code
    IN IF m1.Ways[goOffset + 1] = -1
       THEN IF m1.Tree[n].Next = -1 \/ m1.Ways[nextOffset + 1] = -1
            THEN IF IsRoot(v)
                 THEN [m1 EXCEPT !.Ways[goOffset + 1] = 0]
                 ELSE Bind(Fallback(m1, code, v), LAMBDA to :
                           [to.m EXCEPT !.Ways[goOffset + 1] = to.ret.Idx])
            ELSE [m1 EXCEPT !.Ways[goOffset + 1] = m1.Ways[nextOffset + 1]]
       ELSE m1

(* a cell found resolved is returned at once, as TState(nextNode) *)
SwitchStateCode_HitNoDepth(m, code, v) ==
    IF ~(code >= 0 /\ code < m.CodeSize)
    THEN Result(Failed(m, "assert code < CodeSize"), DefaultState)
    ELSE Bind(AllocGo(m, v.Idx + 1), LAMBDA m1 :
         IF m1.Ways[m1.Tree[v.Idx + 1].Go + code + 1] # -1
         THEN Result(m1, TState(m1.Ways[m1.Tree[v.Idx + 1].Go + code + 1], 0, -1))
         ELSE Bind(ResolveCell(m1, code, v), LAMBDA m2 :
              Result(m2, StateOf(m2, m2.Ways[m2.Tree[v.Idx + 1].Go + code + 1]))))

SwitchStateCode(m, code, v) ==
    IF ~(code >= 0 /\ code < m.CodeSize)
    THEN Result(Failed(m, "assert code < CodeSize"), DefaultState)
    ELSE Bind(AllocGo(m, v.Idx + 1), LAMBDA m1 :
         Bind(ResolveCell(m1, code, v), LAMBDA m2 :
         Result(m2, StateOf(m2, m2.Ways[m2.Tree[v.Idx + 1].Go + code + 1]))))

(* CodeMap[c] as this execution reads it: an index outside the array or an *)
(* entry never written is an undefined read, which yields the value g.     *)
ReadCodeMap(m, c, g) ==
    LET i == CodeMapIndex(c)
    IN IF ~InCodeMap(i) THEN [m |-> Failed(m, "CodeMap index out of bounds"), code |-> g]
       ELSE IF m.CodeMap[i] = Uninit
            THEN [m |-> Failed(m, "CodeMap read uninitialized"), code |-> g]
            ELSE [m |-> m, code |-> m.CodeMap[i]]

SwitchState(m, c, v, g) ==
    Bind(ReadCodeMap(m, c, g), LAMBDA rd :
         IF rd.code = -1
         THEN Result(rd.m, DefaultState)
         ELSE SwitchStateCode(rd.m, rd.code, v))

GetState(m, c, g) == SwitchState(m, c, DefaultState, g)

---------------------------------------------------------------------------
(* The same two functions with their call stack made visible: the calls   *)
(* in progress (open), the number of calls made, and what the stack showed *)
(* on the way (flags).  A run whose stack reaches MaxFrames is cut off.    *)

Frame(fn, node, code) == [fn |-> fn, node |-> node, code |-> code]
RunOf(m) == [m |-> m, ret |-> DefaultState, open |-> << >>, calls |-> 0, flags |-> {}]
DepthOf(r, f) == r.m.Tree[f.node + 1].Depth
(* SwitchStateCode on a node ranks above GetLink on the same node *)
Rank(r, f) == 2 * DepthOf(r, f) + (IF f.fn = "SwitchStateCode" THEN 1 ELSE 0)

(* a call is entered: "revisit" if the same call is already in progress,   *)
(* "depth" if its node is neither the root nor less deep than the node of  *)
(* its caller, "rank" if its rank is not below its caller's                *)
Enter(r, f) ==
    LET caller == r.open[Len(r.open)]
        seen ==
            (IF \E i \in 1..Len(r.open) : r.open[i] = f THEN {"revisit"} ELSE {})
            \cup (IF r.open # << >> /\ f.node # 0 /\ DepthOf(r, f) >= DepthOf(r, caller)
                  THEN {"depth"} ELSE {})
            \cup (IF r.open # << >> /\ Rank(r, f) >= Rank(r, caller)
                  THEN {"rank"} ELSE {})
    IN [r EXCEPT !.open = Append(@, f), !.calls = @ + 1, !.flags = @ \cup seen]
Leave(r, st) == [r EXCEPT !.open = SubSeq(@, 1, Len(@) - 1), !.ret = st]
CutOff(r) == [r EXCEPT !.flags = @ \cup {"cut off"}, !.ret = DefaultState]
Full(r) == "cut off" \in r.flags \/ Len(r.open) >= MaxFrames

RECURSIVE TracedGetLink(_, _)
RECURSIVE TracedSwitchStateCode(_, _, _)

(* the link of a node looked up from the node's own row *)
TracedGetLink_SelfStep(r0, s) ==
    IF Full(r0) THEN CutOff(r0)
    ELSE Bind(Enter(r0, Frame("GetLink", s.Idx, -1)), LAMBDA r :
         LET v == s.Idx
             node == r.m.Tree[v + 1]
             Return(r1) ==
                 LET link == r1.m.Tree[v + 1].SuffLink
                 IN IF link >= 0
                    THEN Leave(r1, TState(link, r1.m.Tree[v + 1].Depth,
                                          r1.m.Tree[link + 1].IsLeaf))
                    ELSE Leave([r1 EXCEPT !.m = Failed(@, "assert SuffLink >= 0")],
                               DefaultState)
         IN IF node.SuffLink = -1
            THEN IF v = 0 \/ node.Parent = 0
                 THEN Return([r EXCEPT !.m.Tree[v + 1].SuffLink = 0])
                 ELSE Bind(TracedSwitchStateCode(r, node.ParentCode,
                                                 TState(node.Parent, 0, -1)), LAMBDA to :
                      Return([to EXCEPT !.m.Tree[v + 1].SuffLink = to.ret.Idx]))
            ELSE Return(r))

TracedGetLink(r0, s) ==
    IF Full(r0) THEN CutOff(r0)
    ELSE Bind(Enter(r0, Frame("GetLink", s.Idx, -1)), LAMBDA r :
         LET v == s.Idx
             node == r.m.Tree[v + 1]
             Return(r1) ==
                 LET link == r1.m.Tree[v + 1].SuffLink
                 IN IF link >= 0
                    THEN Leave(r1, TState(link, r1.m.Tree[v + 1].Depth,
                                          r1.m.Tree[link + 1].IsLeaf))
                    ELSE Leave([r1 EXCEPT !.m = Failed(@, "assert SuffLink >= 0")],
                               DefaultState)
         IN IF node.SuffLink = -1
            THEN IF v = 0 \/ node.Parent = 0
                 THEN Return([r EXCEPT !.m.Tree[v + 1].SuffLink = 0])
                 ELSE Bind(TracedGetLink(r, TState(node.Parent, 0, -1)), LAMBDA up :
                      Bind(TracedSwitchStateCode(up, node.ParentCode, up.ret), LAMBDA to :
                      Return([to EXCEPT !.m.Tree[v + 1].SuffLink = to.ret.Idx])))
            ELSE Return(r))

TracedSwitchStateCode(r0, code, v) ==
    IF Full(r0) THEN CutOff(r0)
    ELSE IF ~(code >= 0 /\ code < r0.m.CodeSize)
    THEN [r0 EXCEPT !.m = Failed(@, "assert code < CodeSize"), !.ret = DefaultState,
                    !.calls = @ + 1]
    ELSE Bind(Enter([r0 EXCEPT !.m = AllocGo(@, v.Idx + 1)],
                    Frame("SwitchStateCode", v.Idx, code)), LAMBDA r :
         LET n == v.Idx + 1
             goOffset == r.m.Tree[n].Go + code
             nextOffset == r.m.Tree[n].Next + code
             Return(r1) == Leave(r1, StateOf(r1.m, r1.m.Ways[goOffset + 1]))
         IN IF r.m.Ways[goOffset + 1] = -1
            THEN IF r.m.Tree[n].Next = -1 \/ r.m.Ways[nextOffset + 1] = -1
                 THEN IF IsRoot(v)
                      THEN Return([r EXCEPT !.m.Ways[goOffset + 1] = 0])
                      ELSE Bind(TracedGetLink(r, v), LAMBDA lk :
                           Bind(TracedSwitchStateCode(lk, code, lk.ret), LAMBDA to :
                           Return([to EXCEPT !.m.Ways[goOffset + 1] = to.ret.Idx])))
                 ELSE Return([r EXCEPT !.m.Ways[goOffset + 1] = r.m.Ways[nextOffset + 1]])
            ELSE Return(r))

---------------------------------------------------------------------------
(* HasString, HasPrefix, SearchIn *)

RECURSIVE HasStringLoop(_, _, _, _, _)
HasStringLoop(m, s, i, st, g) ==
    IF i > Len(s) THEN Result(m, IsLeaf(st))
    ELSE Bind(SwitchState(m, s[i], st, g), LAMBDA r :
              IF ~IsNextTo(r.ret, st) THEN Result(r.m, FALSE)
              ELSE HasStringLoop(r.m, s, i + 1, r.ret, g))

HasString(m, s, g) == HasStringLoop(m, s, 1, DefaultState, g)

RECURSIVE HasPrefixLoop(_, _, _, _, _)
HasPrefixLoop(m, s, i, st, g) ==
    IF i > Len(s) THEN Result(m, TRUE)
    ELSE Bind(SwitchState(m, s[i], st, g), LAMBDA r :
              IF ~IsNextTo(r.ret, st) THEN Result(r.m, FALSE)
              ELSE HasPrefixLoop(r.m, s, i + 1, r.ret, g))

HasPrefix_LeafOnly(m, s, g) == HasString(m, s, g)

HasPrefix(m, s, g) == HasPrefixLoop(m, s, 1, DefaultState, g)

(* GetWordIdx asserts IsLeaf() *)
GetWordIdx(st) == st.Leaf
AssertLeaf(m, st) == IF IsLeaf(st) THEN m ELSE Failed(m, "assert IsLeaf()")

(* res.emplace_back(i + 1, state.GetWordIdx()) *)
Match(i, st) == <<i + 1, GetWordIdx(st)>>

RECURSIVE SearchInLoop(_, _, _, _, _, _)
SearchInLoop(m, s, i, st, res, g) ==
    IF i >= Len(s) THEN Result(m, res)
    ELSE Bind(SwitchState(m, s[i + 1], st, g), LAMBDA r :
              IF IsLeaf(r.ret)
              THEN Bind(Append(res, Match(i, r.ret)), LAMBDA res1 :
                        SearchInLoop(AssertLeaf(r.m, r.ret), s, i + 1, r.ret, res1, g))
              ELSE SearchInLoop(r.m, s, i + 1, r.ret, res, g))

SearchIn(m, s, res, g) == SearchInLoop(m, s, 0, DefaultState, res, g)

---------------------------------------------------------------------------
(* Construction *)

(* The members before a constructor body runs: CodeMap has no initializer. *)
DefaultMembers ==
    [CodeSize |-> 0,
     CodeMap |-> [i \in 0..(NumChars - 1) |-> Uninit],
     Tree |-> << >>,
     Ways |-> << >>,
     Fault |-> "none"]

(* TAhoCorasick() : Tree(1) *)
DefaultConstructed == [DefaultMembers EXCEPT !.Tree = <<TNode>>]

(* TAhoCorasick(words) { Reset(words); } *)
Constructed(ws) == ResetMembers(DefaultMembers, ws)

(* The record of a call: s a string, c a symbol, v a TState; held is the   *)
(* length of Ways when a Reset started.                                    *)
NoArg == [s |-> << >>, c |-> 0, v |-> DefaultState, held |-> 0]
NoRet == [b |-> FALSE, res |-> << >>, st |-> DefaultState]

(* No caller is inside a call: every call of the caller runs alone.        *)
NoThreads ==
    [phase |-> "none", mixed |-> FALSE, th |-> << >>, start |-> << >>, handles |-> {}]

(* The object after construction: TAhoCorasick(), or TAhoCorasick(words)   *)
(* as main() builds it.  Every other pattern set arrives through Reset.    *)
ConstructorSets == {MainStrings}

InitWith(syms, signs) ==
    /\ charSigned \in signs
    /\ symbols = syms
    /\ \/ /\ words = << >>
          /\ built = FALSE
          /\ op = "TAhoCorasick"
          /\ LET m == DefaultConstructed
             IN /\ CodeSize = m.CodeSize
                /\ CodeMap = m.CodeMap
                /\ Tree = m.Tree
                /\ Ways = m.Ways
       \/ /\ words \in ConstructorSets
          /\ built = TRUE
          /\ op = "TAhoCorasick"
          /\ LET m == Constructed(words)
             IN /\ CodeSize = m.CodeSize
                /\ CodeMap = m.CodeMap
                /\ Tree = m.Tree
                /\ Ways = m.Ways
    /\ state = DefaultState
    /\ arg = NoArg
    /\ ret = NoRet
    /\ nq = 0
    /\ nr = 0
    /\ fault = "none"
    /\ threads = NoThreads

(* Symbols below 128 index CodeMap alike whatever the signedness of char.  *)
Init == InitWith(TextSyms, {TRUE})
InitByte == InitWith(TextSyms \cup HighSyms, BOOLEAN)

---------------------------------------------------------------------------
(* Operations *)

Defined(c) == InCodeMap(CodeMapIndex(c)) /\ CodeMap[CodeMapIndex(c)] # Uninit
(* What an undefined read of a code can yield: unmapped, a code in range,  *)
(* or a value that is no code (CodeSize stands for all of them).           *)
Garbage(cs) == IF \A c \in cs : Defined(c) THEN {-1} ELSE -1..CodeSize

(* the code of a symbol, as the object maps it *)
CodeOf(c) == CodeMap[CodeMapIndex(c)]

(* the trie child of node n under symbol c, -1 if there is none *)
TrieChildCode(n, code) ==
    IF code < 0 \/ code >= CodeSize \/ Tree[n + 1].Next = -1 THEN -1
    ELSE Ways[Tree[n + 1].Next + code + 1]
TrieChild(n, c) ==
    IF ~Defined(c) THEN -1 ELSE TrieChildCode(n, CodeMap[CodeMapIndex(c)])

HasStringArgs == Strings \cup RangeOf(MainStrings) \cup MainNonStrings
HasPrefixArgs == Strings \cup MainPrefixes
SearchInArgs == Strings \cup MainTexts

Commit(r, name, a, rt, st) ==
    /\ Tree' = r.m.Tree
    /\ Ways' = r.m.Ways
    /\ fault' = r.m.Fault
    /\ op' = name
    /\ arg' = a
    /\ ret' = rt
    /\ state' = st
    /\ nq' = nq + 1
    /\ UNCHANGED <<words, built, charSigned, symbols, CodeSize, CodeMap, nr, threads>>

QueryOps == {"HasString", "HasPrefix", "SearchIn", "GetState", "SwitchState", "GetLink"}
Calls == QueryOps \cup {"Reset"}

(* The caller acts when the latest call has returned and been consumed.    *)
Idle == fault = "none" /\ op \notin Calls

Reset(ws) ==
    /\ Idle
    /\ nr < MaxResets
    /\ LET m == ResetMembers(Members, ws)
       IN /\ CodeSize' = m.CodeSize
          /\ CodeMap' = m.CodeMap
          /\ Tree' = m.Tree
          /\ Ways' = m.Ways
    /\ words' = ws
    /\ built' = TRUE
    /\ op' = "Reset"
    /\ arg' = [NoArg EXCEPT !.held = Len(Ways)]
    /\ ret' = NoRet
    /\ state' = DefaultState
    /\ nq' = 0
    /\ nr' = nr + 1
    /\ UNCHANGED <<charSigned, symbols, fault, threads>>

CanQuery == Idle /\ nq < MaxQueries

DoHasString(s) ==
    /\ CanQuery
    /\ \E g \in Garbage(RangeOf(s)) :
          LET r == HasString(Members, s, g)
          IN Commit(r, "HasString", [NoArg EXCEPT !.s = s], [NoRet EXCEPT !.b = r.ret],
                    DefaultState)

DoHasPrefix(s) ==
    /\ CanQuery
    /\ \E g \in Garbage(RangeOf(s)) :
          LET r == HasPrefix(Members, s, g)
          IN Commit(r, "HasPrefix", [NoArg EXCEPT !.s = s], [NoRet EXCEPT !.b = r.ret],
                    DefaultState)

DoSearchIn(s) ==
    /\ CanQuery
    /\ \E g \in Garbage(RangeOf(s)) :
          LET r == SearchIn(Members, s, << >>, g)
          IN Commit(r, "SearchIn", [NoArg EXCEPT !.s = s], [NoRet EXCEPT !.res = r.ret],
                    DefaultState)

DoGetState(c) ==
    /\ CanQuery
    /\ \E g \in Garbage({c}) :
          LET r == GetState(Members, c, g)
          IN Commit(r, "GetState", [NoArg EXCEPT !.c = c], [NoRet EXCEPT !.st = r.ret],
                    r.ret)

DoSwitchState(c) ==
    /\ CanQuery
    /\ \E g \in Garbage({c}) :
          LET r == SwitchState(Members, c, state, g)
          IN Commit(r, "SwitchState", [NoArg EXCEPT !.c = c, !.v = state],
                    [NoRet EXCEPT !.st = r.ret], r.ret)

DoGetLink ==
    /\ CanQuery
    /\ LET r == GetLink(Members, state)
       IN Commit(r, "GetLink", [NoArg EXCEPT !.v = state], [NoRet EXCEPT !.st = r.ret],
                 r.ret)

(* The caller consumes the result of the latest call (main() asserts on    *)
(* the booleans and clears res); the TState it was handed stays with it.   *)
Discard ==
    /\ fault = "none"
    /\ op \in Calls
    /\ op' = "done"
    /\ arg' = NoArg
    /\ ret' = NoRet
    /\ UNCHANGED <<words, built, charSigned, symbols, CodeSize, CodeMap, Tree, Ways,
                   state, nq, nr, fault, threads>>

Next ==
    \/ \E ws \in PatternSets : Reset(ws)
    \/ Discard
    \/ \E s \in HasStringArgs : DoHasString(s)
    \/ \E s \in HasPrefixArgs : DoHasPrefix(s)
    \/ \E s \in SearchInArgs : DoSearchIn(s)
    \/ \E c \in symbols : DoGetState(c)
    \/ \E c \in symbols : DoSwitchState(c)
    \/ DoGetLink

Spec == Init /\ [][Next]_vars
SpecByte == InitByte /\ [][Next]_vars

---------------------------------------------------------------------------
(* A caller that walks the automaton by hand: it constructs the object     *)
(* from a pattern set and then moves its TState with GetState, SwitchState *)
(* and GetLink, every call starting from the state the previous one        *)
(* returned.                                                               *)

InitWalk ==
    /\ charSigned = TRUE
    /\ symbols = TextSyms
    /\ words \in PatternSets
    /\ built = TRUE
    /\ op = "TAhoCorasick"
    /\ LET m == Constructed(words)
       IN /\ CodeSize = m.CodeSize
          /\ CodeMap = m.CodeMap
          /\ Tree = m.Tree
          /\ Ways = m.Ways
    /\ state = DefaultState
    /\ arg = NoArg
    /\ ret = NoRet
    /\ nq = 0
    /\ nr = 0
    /\ fault = "none"
    /\ threads = NoThreads

CanWalk == fault = "none" /\ nq < MaxWalk

WalkGetState(c) ==
    /\ CanWalk
    /\ \E g \in Garbage({c}) :
          LET r == GetState(Members, c, g)
          IN Commit(r, "GetState", [NoArg EXCEPT !.c = c], [NoRet EXCEPT !.st = r.ret],
                    r.ret)

WalkSwitchState(c) ==
    /\ CanWalk
    /\ \E g \in Garbage({c}) :
          LET r == SwitchState(Members, c, state, g)
          IN Commit(r, "SwitchState", [NoArg EXCEPT !.c = c, !.v = state],
                    [NoRet EXCEPT !.st = r.ret], r.ret)

WalkGetLink ==
    /\ CanWalk
    /\ LET r == GetLink(Members, state)
       IN Commit(r, "GetLink", [NoArg EXCEPT !.v = state], [NoRet EXCEPT !.st = r.ret],
                 r.ret)

NextWalk ==
    \/ \E c \in symbols : WalkGetState(c)
    \/ \E c \in symbols : WalkSwitchState(c)
    \/ WalkGetLink

SpecWalk == InitWalk /\ [][NextWalk]_vars

---------------------------------------------------------------------------
(* Two callers inside SwitchState on one automaton, with no                *)
(* synchronization: every read and every write of a node field or of Ways  *)
(* is one step.  A caller's calls in progress are a stack of frames, each  *)
(* with the place (pc) its function has reached and its locals.            *)

Thread == {1, 2}
RaceSets == { << <<97, 97>>, <<98>> >>, << <<97, 98>>, <<98, 97>> >> }

(* The handles the caller gets hold of before the two calls: TState() and  *)
(* what GetState returns for each pattern symbol, and for a caller that    *)
(* walks one step further what SwitchState returns from those.             *)
RECURSIVE GetStates(_, _)
GetStates(m, cs) ==
    IF cs = {} THEN m
    ELSE LET c == CHOOSE x \in cs : \A y \in cs : x <= y
         IN Bind(GetState(m, c, -1), LAMBDA r : GetStates(r.m, cs \ {c}))
RECURSIVE SwitchStates(_, _)
SwitchStates(m, calls) ==
    IF calls = {} THEN m
    ELSE LET call == CHOOSE x \in calls : TRUE
         IN Bind(SwitchState(m, call[1], call[2], -1),
                 LAMBDA r : SwitchStates(r.m, calls \ {call}))
HandlesNear(m) == {DefaultState} \cup {GetState(m, c, -1).ret : c \in PatSyms}
HandlesFar(m) ==
    HandlesNear(m) \cup {SwitchState(m, c, v, -1).ret : c \in PatSyms, v \in HandlesNear(m)}
(* the members and the handles after the caller's walk *)
WalkNear(ws) ==
    LET m == GetStates(Constructed(ws), PatSyms)
    IN [m |-> m, handles |-> HandlesNear(m)]
WalkFar(ws) ==
    LET m == Bind(GetStates(Constructed(ws), PatSyms), LAMBDA m1 :
                  SwitchStates(m1, PatSyms \X (HandlesNear(m1) \ {DefaultState})))
    IN [m |-> m, handles |-> HandlesFar(m)]
Handles == threads.handles

ReadyThread ==
    [status |-> "ready", c |-> 0, v |-> DefaultState, stack |-> << >>, ret |-> DefaultState]
CodeFrame(code, node) ==
    [fn |-> "SwitchStateCode", pc |-> "Go?", node |-> node, code |-> code,
     size |-> 0, off |-> 0]
LinkFrame(node) ==
    [fn |-> "GetLink", pc |-> "SuffLink?", node |-> node, code |-> -1,
     size |-> 0, off |-> 0]

InitRace ==
    /\ charSigned = TRUE
    /\ symbols = TextSyms
    /\ words \in RaceSets
    /\ built = TRUE
    /\ \E walk \in {WalkNear(words), WalkFar(words)} :
          /\ CodeSize = walk.m.CodeSize
          /\ CodeMap = walk.m.CodeMap
          /\ Tree = walk.m.Tree
          /\ Ways = walk.m.Ways
          /\ threads = [phase |-> "race", mixed |-> FALSE,
                        th |-> [t \in Thread |-> ReadyThread], start |-> walk.m,
                        handles |-> walk.handles]
    /\ op = "SwitchState"
    /\ state = DefaultState
    /\ arg = NoArg
    /\ ret = NoRet
    /\ nq = 0
    /\ nr = 0
    /\ fault = "none"

Racing == threads.phase = "race" /\ fault = "none"
Stack(t) == threads.th[t].stack
Top(t) == Stack(t)[Len(Stack(t))]
At(t, fn, pcs) ==
    /\ Racing /\ threads.th[t].status = "running"
    /\ Top(t).fn = fn /\ Top(t).pc \in pcs
Node(t) == Tree[Top(t).node + 1]

(* the caller's top frame goes on as f *)
Continue(t, f) == threads' = [threads EXCEPT !.th[t].stack[Len(Stack(t))] = f]
(* the top frame goes on as f and calls g *)
Call(t, f, g) ==
    threads' = [threads EXCEPT !.th[t].stack = Append([Stack(t) EXCEPT ![Len(Stack(t))] = f], g)]
(* the top frame returns st to its caller, or to the caller of SwitchState *)
Return(t, st) ==
    threads' = [threads EXCEPT !.th[t].stack = SubSeq(Stack(t), 1, Len(Stack(t)) - 1),
                               !.th[t].ret = st,
                               !.th[t].status = IF Len(Stack(t)) = 1 THEN "done" ELSE @]
Stop(what) == fault' = what /\ UNCHANGED threads
Memory == <<Tree, Ways>>
Frozen == <<words, built, charSigned, symbols, CodeSize, CodeMap, state, op, arg, ret, nq, nr>>

(* SwitchState(c, v), lines 150-155: CodeMap is not written by queries *)
RaceSwitchState(t, c, v) ==
    /\ Racing /\ threads.th[t].status = "ready"
    /\ LET code == CodeOf(c)
           others == \E u \in Thread \ {t} : threads.th[u].status = "running"
       IN threads' =
              [threads EXCEPT
                  !.mixed = @ \/ others,
                  !.th[t] = IF code = -1
                            THEN [ReadyThread EXCEPT !.status = "done", !.c = c, !.v = v]
                            ELSE [ReadyThread EXCEPT !.status = "running", !.c = c, !.v = v,
                                                     !.stack = <<CodeFrame(code, v.Idx)>>]]
    /\ UNCHANGED <<Memory, Frozen, fault>>

(* line 178: if (node.Go == -1) *)
CodeTestGo(t) ==
    /\ At(t, "SwitchStateCode", {"Go?"})
    /\ Continue(t, [Top(t) EXCEPT !.pc = IF Node(t).Go = -1 THEN "size" ELSE "offset"])
    /\ UNCHANGED <<Memory, Frozen, fault>>

(* line 179, right side: Ways.size() *)
CodeReadSize(t) ==
    /\ At(t, "SwitchStateCode", {"size"})
    /\ Continue(t, [Top(t) EXCEPT !.pc = "setGo", !.size = Len(Ways)])
    /\ UNCHANGED <<Memory, Frozen, fault>>

(* line 179, left side: node.Go = *)
CodeSetGo(t) ==
    /\ At(t, "SwitchStateCode", {"setGo"})
    /\ Tree' = [Tree EXCEPT ![Top(t).node + 1].Go = Top(t).size]
    /\ Continue(t, [Top(t) EXCEPT !.pc = "insert"])
    /\ UNCHANGED <<Ways, Frozen, fault>>

(* the row is left out *)
CodeInsert_Nothing(t) ==
    /\ At(t, "SwitchStateCode", {"insert"})
    /\ Continue(t, [Top(t) EXCEPT !.pc = "offset"])
    /\ UNCHANGED <<Tree, Ways, Frozen, fault>>

(* line 180: Ways.insert(Ways.end(), CodeSize, -1) *)
CodeInsert(t) ==
    /\ At(t, "SwitchStateCode", {"insert"})
    /\ Ways' = Ways \o Row(CodeSize)
    /\ Continue(t, [Top(t) EXCEPT !.pc = "offset"])
    /\ UNCHANGED <<Tree, Frozen, fault>>

(* line 183: goOffset = node.Go + code *)
CodeOffset(t) ==
    /\ At(t, "SwitchStateCode", {"offset"})
    /\ Continue(t, [Top(t) EXCEPT !.pc = "cell?", !.off = Node(t).Go + Top(t).code])
    /\ UNCHANGED <<Memory, Frozen, fault>>

(* lines 185-187: Ways[goOffset] == -1, the trie edge (which queries do    *)
(* not write), v.IsRoot(); on the suffix-link branch GetLink(v) is called  *)
CodeTestCell(t) ==
    /\ At(t, "SwitchStateCode", {"cell?"})
    /\ LET f == Top(t)
           edge == TrieChildCode(f.node, f.code)
       IN IF f.off < 0 \/ f.off >= Len(Ways)
          THEN Stop("Ways index out of bounds")
          ELSE /\ IF Ways[f.off + 1] # -1 THEN Continue(t, [f EXCEPT !.pc = "return"])
                  ELSE IF edge # -1 THEN Continue(t, [f EXCEPT !.pc = "setEdge"])
                  ELSE IF f.node = 0 THEN Continue(t, [f EXCEPT !.pc = "setRoot"])
                  ELSE IF Len(Stack(t)) >= MaxFrames THEN UNCHANGED threads
                  ELSE Call(t, [f EXCEPT !.pc = "linked"], LinkFrame(f.node))
               /\ UNCHANGED fault
    /\ UNCHANGED <<Memory, Frozen>>

(* line 187: SwitchStateCode(code, GetLink(v)) is called with the link *)
CodeLinked(t) ==
    /\ At(t, "SwitchStateCode", {"linked"})
    /\ Call(t, [Top(t) EXCEPT !.pc = "stepped"], CodeFrame(Top(t).code, threads.th[t].ret.Idx))
    /\ UNCHANGED <<Memory, Frozen, fault>>

(* lines 187 and 189: Ways[goOffset] = *)
CodeSetCell(t) ==
    /\ At(t, "SwitchStateCode", {"setRoot", "setEdge", "stepped"})
    /\ LET f == Top(t)
           value == CASE f.pc = "setRoot" -> 0
                      [] f.pc = "setEdge" -> TrieChildCode(f.node, f.code)
                      [] f.pc = "stepped" -> threads.th[t].ret.Idx
       IN /\ Ways' = [Ways EXCEPT ![f.off + 1] = value]
          /\ Continue(t, [f EXCEPT !.pc = "return"])
    /\ UNCHANGED <<Tree, Frozen, fault>>

(* lines 193-194: nextNode = Ways[goOffset]; Depth and IsLeaf of a node    *)
(* are not written by queries                                              *)
CodeReturn(t) ==
    /\ At(t, "SwitchStateCode", {"return"})
    /\ Return(t, StateOf(Members, Ways[Top(t).off + 1]))
    /\ UNCHANGED <<Memory, Frozen, fault>>

(* lines 161-165: node.SuffLink == -1, v == 0 || Tree[v].Parent == 0; on   *)
(* the else branch GetLink(node.Parent) is called                          *)
LinkTest(t) ==
    /\ At(t, "GetLink", {"SuffLink?"})
    /\ LET f == Top(t)
       IN IF Node(t).SuffLink # -1 THEN Continue(t, [f EXCEPT !.pc = "return"])
          ELSE IF f.node = 0 \/ Node(t).Parent = 0
               THEN Continue(t, [f EXCEPT !.pc = "setRoot"])
          ELSE IF Len(Stack(t)) >= MaxFrames THEN UNCHANGED threads
          ELSE Call(t, [f EXCEPT !.pc = "parentLinked"], LinkFrame(Node(t).Parent))
    /\ UNCHANGED <<Memory, Frozen, fault>>

(* line 165: SwitchStateCode(node.ParentCode, GetLink(node.Parent)) is     *)
(* called with the parent's link                                           *)
LinkParentLinked(t) ==
    /\ At(t, "GetLink", {"parentLinked"})
    /\ Call(t, [Top(t) EXCEPT !.pc = "stepped"],
            CodeFrame(Node(t).ParentCode, threads.th[t].ret.Idx))
    /\ UNCHANGED <<Memory, Frozen, fault>>

(* lines 163 and 165: node.SuffLink = *)
LinkSet(t) ==
    /\ At(t, "GetLink", {"setRoot", "stepped"})
    /\ Tree' = [Tree EXCEPT ![Top(t).node + 1].SuffLink =
                   IF Top(t).pc = "setRoot" THEN 0 ELSE threads.th[t].ret.Idx]
    /\ Continue(t, [Top(t) EXCEPT !.pc = "return"])
    /\ UNCHANGED <<Ways, Frozen, fault>>

(* lines 169-170 *)
LinkReturn(t) ==
    /\ At(t, "GetLink", {"return"})
    /\ IF Node(t).SuffLink >= 0
       THEN /\ Return(t, TState(Node(t).SuffLink, Node(t).Depth,
                                Tree[Node(t).SuffLink + 1].IsLeaf))
            /\ UNCHANGED fault
       ELSE Stop("assert SuffLink >= 0")
    /\ UNCHANGED <<Memory, Frozen>>

(* Both calls have returned; the caller makes one more call, alone.  A     *)
(* call that does not come back within MaxFrames nested calls is a fault.  *)
RaceThenSwitchState(c, v) ==
    /\ Racing /\ \A t \in Thread : threads.th[t].status = "done"
    /\ LET code == CodeOf(c)
           r == IF code = -1 THEN RunOf(Members)
                ELSE TracedSwitchStateCode(RunOf(Members), code, v)
       IN /\ Tree' = r.m.Tree
          /\ Ways' = r.m.Ways
          /\ fault' = IF "cut off" \in r.flags THEN "recursion without end" ELSE r.m.Fault
          /\ ret' = [NoRet EXCEPT !.st = r.ret]
    /\ op' = "SwitchState"
    /\ arg' = [NoArg EXCEPT !.c = c, !.v = v]
    /\ nq' = nq + 1
    /\ threads' = [threads EXCEPT !.phase = "after"]
    /\ UNCHANGED <<words, built, charSigned, symbols, CodeSize, CodeMap, state, nr>>

NextRace ==
    \/ \E t \in Thread : \E c \in PatSyms : \E v \in Handles : RaceSwitchState(t, c, v)
    \/ \E t \in Thread : CodeTestGo(t)
    \/ \E t \in Thread : CodeReadSize(t)
    \/ \E t \in Thread : CodeSetGo(t)
    \/ \E t \in Thread : CodeInsert(t)
    \/ \E t \in Thread : CodeOffset(t)
    \/ \E t \in Thread : CodeTestCell(t)
    \/ \E t \in Thread : CodeLinked(t)
    \/ \E t \in Thread : CodeSetCell(t)
    \/ \E t \in Thread : CodeReturn(t)
    \/ \E t \in Thread : LinkTest(t)
    \/ \E t \in Thread : LinkParentLinked(t)
    \/ \E t \in Thread : LinkSet(t)
    \/ \E t \in Thread : LinkReturn(t)
    \/ \E c \in PatSyms : \E v \in Handles : RaceThenSwitchState(c, v)

SpecRace == InitRace /\ [][NextRace]_vars

---------------------------------------------------------------------------
(* What the pattern set says about a string *)

IsPattern(s) == \E i \in 1..Len(words) : words[i] = s
IsPrefixOf(s, w) == Len(s) <= Len(w) /\ SubSeq(w, 1, Len(s)) = s
IsProperPrefixOf(s, w) == Len(s) < Len(w) /\ IsPrefixOf(s, w)
IsProperSuffixOf(s, w) == Len(s) < Len(w) /\ SubSeq(w, Len(w) - Len(s) + 1, Len(w)) = s
IsPatternPrefix(s) == \E i \in 1..Len(words) : IsPrefixOf(s, words[i])
OccursInPattern(c) == \E i \in 1..Len(words) : c \in RangeOf(words[i])

(* the pattern p ends at position e (1-based, counted in symbols) of text *)
EndsAt(text, e, p) == e >= Len(p) /\ e <= Len(text) /\ SubSeq(text, e - Len(p) + 1, e) = p
Occurrences(text) ==
    {x \in (1..Len(text)) \X (0..(Len(words) - 1)) : EndsAt(text, x[1], words[x[2] + 1])}

Ran(name) == built /\ fault = "none" /\ op = name

(* The result of the recorded call on an automaton freshly constructed     *)
(* from the same patterns, with nothing resolved yet.                      *)
FreshRet ==
    LET f == Constructed(words)
    IN CASE op = "HasString" -> [NoRet EXCEPT !.b = HasString(f, arg.s, -1).ret]
         [] op = "HasPrefix" -> [NoRet EXCEPT !.b = HasPrefix(f, arg.s, -1).ret]
         [] op = "SearchIn" -> [NoRet EXCEPT !.res = SearchIn(f, arg.s, << >>, -1).ret]
         [] op = "GetState" -> [NoRet EXCEPT !.st = GetState(f, arg.c, -1).ret]
         [] op = "SwitchState" -> [NoRet EXCEPT !.st = SwitchState(f, arg.c, arg.v, -1).ret]
         [] op = "GetLink" -> [NoRet EXCEPT !.st = GetLink(f, arg.v).ret]
         [] OTHER -> NoRet

---------------------------------------------------------------------------
(* C1: HasString(p) is true for every pattern p of the set, of any length, *)
(* whatever queries ran before.  Fails for the empty pattern: the walk     *)
(* starts from TState(), whose Leaf is -1 whatever Tree[0].IsLeaf holds.   *)
C1_PatternsAccepted ==
    (Ran("HasString") /\ IsPattern(arg.s)) => ret.b = TRUE

(* C2: HasString(s) is false for every string s that is no pattern of the  *)
(* set, whatever queries ran before.                                       *)
C2_NonPatternsRejected ==
    (Ran("HasString") /\ ~IsPattern(arg.s)) => ret.b = FALSE

(* a proper suffix of a pattern, reached after an earlier query, rejected *)
C2_Witness ==
    /\ Ran("HasString") /\ nq = MaxQueries
    /\ ~IsPattern(arg.s) /\ arg.s # << >>
    /\ \E i \in 1..Len(words) : IsProperSuffixOf(arg.s, words[i])
    /\ ret.b = FALSE

(* C3 as claimed: HasPrefix(s) is true iff s is a prefix of at least one   *)
(* pattern.                                                                *)
C3_PrefixIffPatternPrefix ==
    Ran("HasPrefix") => (ret.b <=> IsPatternPrefix(arg.s))

(* C3 as amended: HasPrefix(s) is true iff s is empty or s is a prefix of  *)
(* at least one pattern; a proper prefix of a pattern that is not itself a *)
(* pattern has HasPrefix true and HasString false.                         *)
C3_PrefixIffEmptyOrPatternPrefix ==
    /\ Ran("HasPrefix") => (ret.b <=> (arg.s = << >> \/ IsPatternPrefix(arg.s)))
    /\ (Ran("HasString") /\ ~IsPattern(arg.s) /\ IsPatternPrefix(arg.s)) => ret.b = FALSE

C3_Witness ==
    /\ Ran("HasPrefix") /\ arg.s # << >> /\ ~IsPattern(arg.s)
    /\ \E i \in 1..Len(words) : IsProperPrefixOf(arg.s, words[i])
    /\ ret.b = TRUE

(* C4: SearchIn(text) reports every occurrence (e, i) of every pattern     *)
(* exactly once, in order of end position, however the patterns overlap or *)
(* contain one another.                                                    *)
C4_EveryOccurrenceOnce ==
    Ran("SearchIn") =>
        /\ \A x \in Occurrences(arg.s) :
              Cardinality({k \in 1..Len(ret.res) : ret.res[k] = x}) = 1
        /\ \A k \in 1..(Len(ret.res) - 1) : ret.res[k][1] <= ret.res[k + 1][1]

(* C5: every pair (position, idx) SearchIn appends is a true occurrence:   *)
(* 1 <= position <= len(text), 0 <= idx < number of patterns, position >=  *)
(* len(pattern[idx]) and the text ends pattern[idx] at position.           *)
C5_Sound ==
    Ran("SearchIn") =>
        \A k \in 1..Len(ret.res) :
            /\ ret.res[k][1] >= 1 /\ ret.res[k][1] <= Len(arg.s)
            /\ ret.res[k][2] >= 0 /\ ret.res[k][2] < Len(words)
            /\ ret.res[k][1] >= Len(words[ret.res[k][2] + 1])
            /\ EndsAt(arg.s, ret.res[k][1], words[ret.res[k][2] + 1])

(* a match reported after a failure transition, on caches an earlier query filled *)
C5_Witness ==
    /\ Ran("SearchIn") /\ nq = MaxQueries
    /\ \E k \in 1..Len(ret.res) :
          /\ ret.res[k][1] > Len(words[ret.res[k][2] + 1])
          /\ arg.s[ret.res[k][1] - Len(words[ret.res[k][2] + 1])] \in PatSyms

(* C6: a text that contains a (non-empty) pattern as a substring gets at   *)
(* least one match.                                                        *)
C6_SomeMatch ==
    (Ran("SearchIn") /\ \E x \in Occurrences(arg.s) : words[x[2] + 1] # << >>)
        => Len(ret.res) >= 1

(* The patterns are distinct and non-empty and none is a proper suffix of  *)
(* a prefix of a pattern.                                                  *)
NoNesting ==
    /\ \A i \in 1..Len(words) : words[i] # << >>
    /\ \A i, j \in 1..Len(words) : i # j => words[i] # words[j]
    /\ \A i, j \in 1..Len(words) : \A k \in 1..Len(words[j]) :
          ~IsProperSuffixOf(words[i], SubSeq(words[j], 1, k))

RECURSIVE AllMatchesFrom(_, _)
AllMatchesFrom(text, e) ==
    IF e > Len(text) THEN << >>
    ELSE LET here == {i \in 0..(Len(words) - 1) : EndsAt(text, e, words[i + 1])}
         IN (IF here = {} THEN << >> ELSE << <<e, CHOOSE i \in here : TRUE>> >>)
            \o AllMatchesFrom(text, e + 1)

(* C7: for distinct non-empty patterns none of which is a proper suffix of *)
(* a prefix of a pattern, SearchIn(text) is exactly the list of all        *)
(* occurrences in increasing end position, overlapping ones included; for  *)
(* (abcd, bcde, cdef), abcdef gives (4,0), (5,1), (6,2) and ZZbcdeXX gives *)
(* (6,1).                                                                  *)
C7_ExactlyAllMatches ==
    /\ (Ran("SearchIn") /\ NoNesting) => ret.res = AllMatchesFrom(arg.s, 1)
    /\ (Ran("SearchIn") /\ words = MainStrings /\ arg.s = <<97, 98, 99, 100, 101, 102>>)
          => ret.res = << <<4, 0>>, <<5, 1>>, <<6, 2>> >>
    /\ (Ran("SearchIn") /\ words = MainStrings
            /\ arg.s = <<90, 90, 98, 99, 100, 101, 88, 88>>)
          => ret.res = << <<6, 1>> >>

C7_Witness ==
    /\ Ran("SearchIn") /\ words = MainStrings
    /\ arg.s = <<97, 98, 99, 100, 101, 102>>
    /\ ret.res = << <<4, 0>>, <<5, 1>>, <<6, 2>> >>

(* C8: the result of every query equals the result of the same query on an *)
(* automaton built from the same patterns with no query history.           *)
C8_CacheTransparent ==
    (built /\ fault = "none" /\ op \in QueryOps) => ret = FreshRet

(* a search run on caches laid out by an earlier query *)
C8_Witness ==
    /\ Ran("SearchIn") /\ nq = MaxQueries /\ ret.res # << >>
    /\ SearchIn(Constructed(words), arg.s, << >>, -1).m.Ways # Ways

(* C9: for every symbol value of char SwitchState returns a state of an    *)
(* existing node, reading only inside CodeMap, Tree and Ways, and the root *)
(* state for a symbol that occurs in no pattern.                           *)
C9_TotalOverBytes ==
    (built /\ op \in {"SwitchState", "GetState"}) =>
        /\ fault = "none"
        /\ ret.st.Idx >= 0 /\ ret.st.Idx < Len(Tree)
        /\ ~OccursInPattern(arg.c) => ret.st = DefaultState

(* C10: after Reset(P) on an object that held another automaton the        *)
(* members equal those of an automaton freshly constructed from P, and     *)
(* every later query returns what it returns on that fresh automaton.      *)
C10_ResetDiscards ==
    (nr >= 1 /\ fault = "none") =>
        /\ op = "Reset" => Members = Constructed(words)
        /\ op \in QueryOps => ret = FreshRet

(* Reset has run on an object whose Ways held main()'s trie rows and the   *)
(* rows queries had appended to them, and has built another automaton      *)
C10_Witness ==
    /\ op = "Reset" /\ nr >= 1 /\ words # << >> /\ words # MainStrings
    /\ arg.held > Len(Constructed(MainStrings).Ways)

---------------------------------------------------------------------------
(* What the trie holds for a string *)


RECURSIVE TrieWalk(_, _, _)
TrieWalk(s, i, n) ==
    IF n = -1 \/ i > Len(s) THEN n ELSE TrieWalk(s, i + 1, TrieChild(n, s[i]))
(* the node of the string s, -1 if s is no prefix in the trie *)
NodeOf(s) == TrieWalk(s, 1, 0)

IndicesOf(s) == {i \in 0..(Len(words) - 1) : words[i + 1] = s}
LastIdx(s) == CHOOSE i \in IndicesOf(s) : \A j \in IndicesOf(s) : j <= i
Duplicated == {words[i] : i \in {j \in 1..Len(words) : Cardinality(IndicesOf(words[j])) >= 2}}

(* C11: a string that occurs at several indices of the pattern set has one *)
(* trie node, whose leaf marker is the largest of those indices;           *)
(* HasString of it is true; every match of it that SearchIn reports, and   *)
(* GetWordIdx of a state of its node, is that largest index.  Fails for    *)
(* the empty string given twice: HasString("") is false (see C1).          *)
C11_LastWriteWins ==
    (built /\ fault = "none") =>
        \A p \in Duplicated :
            /\ NodeOf(p) >= 0 /\ Tree[NodeOf(p) + 1].IsLeaf = LastIdx(p)
            /\ (op = "HasString" /\ arg.s = p) => ret.b = TRUE
            /\ op = "SearchIn" =>
                  \A k \in 1..Len(ret.res) :
                      ret.res[k][2] \in IndicesOf(p) => ret.res[k][2] = LastIdx(p)
            /\ (op \in {"GetState", "SwitchState"} /\ ret.st.Idx = NodeOf(p)
                    /\ ret.st # DefaultState)
                  => GetWordIdx(ret.st) = LastIdx(p)

---------------------------------------------------------------------------
(* The classical automaton of the pattern set *)

Prefixes ==
    UNION {{SubSeq(words[i], 1, k) : k \in 0..Len(words[i])} : i \in 1..Len(words)}
        \cup {<< >>}
PatternSymbols == UNION {RangeOf(words[i]) : i \in 1..Len(words)}
Suffix(s, k) == SubSeq(s, Len(s) - k + 1, Len(s))
(* the longest suffix of s, of length at most n, that is a prefix of a pattern *)
LongestSuffix(s, n) ==
    LET ks == {k \in 0..n : IsPatternPrefix(Suffix(s, k)) \/ k = 0}
    IN Suffix(s, CHOOSE k \in ks : \A j \in ks : j <= k)
ClassicGoto(q, c) == LongestSuffix(Append(q, c), Len(q) + 1)
ClassicLink(q) == IF q = << >> THEN << >> ELSE LongestSuffix(q, Len(q) - 1)
(* the prefix a node stands for *)
PrefixAt(n) == CHOOSE q \in Prefixes : NodeOf(q) = n
(* the resolved transition of node n under code, -1 while it is absent *)
GoCell(n, code) ==
    IF Tree[n + 1].Go = -1 THEN -1 ELSE Ways[Tree[n + 1].Go + code + 1]

(* C12: every resolved cell goto(v, c) holds the node of the longest       *)
(* suffix of prefix(v).c that is a prefix in the trie (the root if none):  *)
(* the trie child where the edge exists, goto(link(v), c) otherwise, the   *)
(* root for a missing edge of the root; SwitchState returns that node.     *)
C12_GotoIsClassical ==
    (built /\ fault = "none") =>
        /\ \A q \in Prefixes : \A c \in PatternSymbols :
              LET n == NodeOf(q)
                  cell == GoCell(n, CodeOf(c))
              IN cell # -1 =>
                    /\ cell = NodeOf(ClassicGoto(q, c))
                    /\ TrieChild(n, c) # -1 => cell = TrieChild(n, c)
                    /\ TrieChild(n, c) = -1 =>
                          cell = IF n = 0 THEN 0
                                 ELSE NodeOf(ClassicGoto(ClassicLink(q), c))
        /\ (op \in {"SwitchState", "GetState"} /\ arg.c \in PatternSymbols) =>
              /\ GoCell(arg.v.Idx, CodeOf(arg.c)) = ret.st.Idx
              /\ ret.st.Idx = NodeOf(ClassicGoto(PrefixAt(arg.v.Idx), arg.c))

(* a missing edge of a node below the root resolved, through a link that   *)
(* is not the root, to a node that is not the root                         *)
C12_Witness ==
    /\ built /\ fault = "none"
    /\ \E q \in Prefixes : \E c \in PatternSymbols :
          /\ TrieChild(NodeOf(q), c) = -1
          /\ ClassicLink(q) # << >>
          /\ GoCell(NodeOf(q), CodeOf(c)) > 0

(* C13: the suffix link of every node v, once resolved, is the node of the *)
(* longest proper suffix of prefix(v) that is a prefix in the trie: the    *)
(* root for the root and for the children of the root,                     *)
(* goto(link(parent(v)), parent_code(v)) otherwise; its depth is below     *)
(* depth(v) for v other than the root; GetLink returns that node.          *)
C13_LinkIsLongestProperSuffix ==
    (built /\ fault = "none") =>
        /\ \A q \in Prefixes :
              LET n == NodeOf(q)
                  link == Tree[n + 1].SuffLink
              IN link # -1 =>
                    /\ link = NodeOf(ClassicLink(q))
                    /\ (n = 0 \/ Tree[n + 1].Parent = 0) => link = 0
                    /\ (n # 0 /\ Tree[n + 1].Parent # 0) =>
                          link = NodeOf(ClassicGoto(
                                     ClassicLink(PrefixAt(Tree[n + 1].Parent)), q[Len(q)]))
                    /\ n # 0 => Tree[link + 1].Depth < Tree[n + 1].Depth
        /\ op = "GetLink" =>
              /\ ret.st.Idx = NodeOf(ClassicLink(PrefixAt(arg.v.Idx)))
              /\ ret.st.Idx = Tree[arg.v.Idx + 1].SuffLink

(* GetLink called by hand on a node two levels below the root whose link  *)
(* is not the root                                                         *)
C13_Witness ==
    /\ built /\ fault = "none" /\ op = "GetLink"
    /\ Tree[arg.v.Idx + 1].Depth >= 2
    /\ ret.st.Idx > 0

(* the nodes that get their row of resolved transitions in this step *)
NewRows == {n \in 1..Len(Tree) : Tree[n].Go = -1 /\ Tree'[n].Go # -1}

(* a step made by a query on a built automaton *)
QueryStep == built /\ op' \in QueryOps /\ nq' = nq + 1

MemoOnly ==
    /\ CodeMap' = CodeMap /\ CodeSize' = CodeSize /\ Len(Tree') = Len(Tree)
    /\ \A n \in 1..Len(Tree) :
          /\ Tree'[n].Depth = Tree[n].Depth
          /\ Tree'[n].Parent = Tree[n].Parent
          /\ Tree'[n].ParentCode = Tree[n].ParentCode
          /\ Tree'[n].IsLeaf = Tree[n].IsLeaf
          /\ Tree'[n].Next = Tree[n].Next
          /\ Tree[n].Next # -1 =>
                \A code \in 0..(CodeSize - 1) :
                    Ways'[Tree[n].Next + code + 1] = Ways[Tree[n].Next + code + 1]
          /\ Tree[n].SuffLink # -1 => Tree'[n].SuffLink = Tree[n].SuffLink
          /\ Tree[n].Go # -1 => Tree'[n].Go = Tree[n].Go
          /\ n \in NewRows =>
                /\ Tree'[n].Go >= Len(Ways)
                /\ Tree'[n].Go + CodeSize <= Len(Ways')
                /\ \A k \in NewRows : k # n => Tree'[k].Go # Tree'[n].Go
    /\ Len(Ways') = Len(Ways) + CodeSize * Cardinality(NewRows)
    /\ \A i \in 1..Len(Ways) : Ways[i] # -1 => Ways'[i] = Ways[i]
    /\ \A i \in 1..Len(Ways) :
          Ways'[i] # Ways[i] =>
              \E n \in 1..Len(Tree) :
                  Tree[n].Go # -1 /\ i > Tree[n].Go /\ i <= Tree[n].Go + CodeSize

(* C14: a query leaves unchanged the code map, CodeSize, the number of     *)
(* nodes, each node's depth, parent, parent code, leaf marker and trie     *)
(* edge row; it only sets suffix links that were absent, appends goto rows *)
(* at the end of Ways for nodes that had none, and sets goto cells that    *)
(* were absent; a link, row offset or cell that holds a value keeps it.    *)
C14_QueriesOnlyFillMemo == [][QueryStep => MemoOnly]_vars

(* a second query has run on caches the first one filled: links and goto   *)
(* cells resolved by the first are still there and more have been added    *)
C14_Witness ==
    /\ built /\ fault = "none" /\ op \in QueryOps /\ nq = MaxQueries
    /\ Cardinality({n \in 1..Len(Tree) : Tree[n].Go # -1}) >= 2
    /\ \E n \in 1..Len(Tree) : Tree[n].SuffLink > 0

(* the traced runs of GetLink on every node and of SwitchStateCode on      *)
(* every node and code, started on the members as they are                 *)
Nodes == 0..(Len(Tree) - 1)
LinkRun(n) == TracedGetLink(RunOf(Members), StateOf(Members, n))
GotoRun(n, code) == TracedSwitchStateCode(RunOf(Members), code, StateOf(Members, n))
Runs == {LinkRun(n) : n \in Nodes}
            \cup {GotoRun(n, code) : n \in Nodes, code \in 0..(CodeSize - 1)}
(* a traced run does what the plain function does *)
RunsFaithful ==
    /\ \A n \in Nodes :
          LET r == LinkRun(n)
          IN Result(r.m, r.ret) = GetLink(Members, StateOf(Members, n))
    /\ \A n \in Nodes : \A code \in 0..(CodeSize - 1) :
          LET r == GotoRun(n, code)
          IN Result(r.m, r.ret) = SwitchStateCode(Members, code, StateOf(Members, n))

(* C15 as claimed: from every cache state, GetLink on every node and       *)
(* SwitchStateCode on every node and code return after finitely many       *)
(* calls, every nested call is on the root or on a node of strictly        *)
(* smaller depth than its caller's, and no call is entered while the same  *)
(* call is in progress.                                                    *)
C15_DepthDecreases ==
    (built /\ fault = "none") =>
        \A r \in Runs : r.open = << >> /\ r.flags \cap {"cut off", "revisit", "depth"} = {}

(* C15 as amended: the calls return after finitely many calls and none is  *)
(* entered while the same call is in progress; every nested call has a     *)
(* rank strictly below its caller's, where the rank is the depth of the    *)
(* node and, on one node, SwitchStateCode ranks above GetLink (the one     *)
(* nested call on a node of the same depth is GetLink(v) made by           *)
(* SwitchStateCode(code, v)).                                              *)
C15_RankDecreases ==
    (built /\ fault = "none") =>
        /\ \A r \in Runs : r.open = << >> /\ r.flags \cap {"cut off", "revisit", "rank"} = {}
        /\ RunsFaithful

(* on caches that earlier queries filled in part, a call that nests at     *)
(* least five calls, one of them GetLink on the caller's own node          *)
C15_Witness ==
    /\ built /\ fault = "none" /\ nq >= 1
    /\ \E n \in 1..Len(Tree) : Tree[n].SuffLink # -1
    /\ \E r \in Runs : r.calls >= 6 /\ "depth" \in r.flags

(* C16: on an automaton built by Reset no assertion fails, whatever the    *)
(* calls and their arguments: GetWordIdx is read from leaf states only,    *)
(* every code passed to SwitchStateCode is below CodeSize, GetLink ends    *)
(* with a link >= 0.  Fails where char is signed and a symbol is a byte    *)
(* above 127: what CodeMap[c] reads outside the array (see C9) is passed   *)
(* to SwitchStateCode as the code.                                         *)
C16_NoAssertFails ==
    built => fault \notin Asserts

(* C17: the nodes are in one-to-one correspondence with the distinct       *)
(* prefixes of the patterns, the root being the empty prefix; every node   *)
(* but the root has the depth of its parent plus one and is the trie child *)
(* of its parent under its parent code; a node's leaf marker is set if and *)
(* only if its prefix is a pattern (the root's when "" is a pattern), and  *)
(* then it is an index of that pattern.                                    *)
C17_TrieInvariant ==
    (built /\ fault = "none") =>
        /\ Len(Tree) = Cardinality(Prefixes)
        /\ NodeOf(<< >>) = 0 /\ Tree[1].Depth = 0 /\ Tree[1].Parent = -1
        /\ \A q \in Prefixes : NodeOf(q) \in Nodes /\ Tree[NodeOf(q) + 1].Depth = Len(q)
        /\ \A q1, q2 \in Prefixes : q1 # q2 => NodeOf(q1) # NodeOf(q2)
        /\ \A n \in Nodes \ {0} :
              LET parent == Tree[n + 1].Parent
              IN /\ parent \in Nodes
                 /\ Tree[n + 1].Depth = Tree[parent + 1].Depth + 1
                 /\ TrieChildCode(parent, Tree[n + 1].ParentCode) = n
        /\ \A q \in Prefixes :
              /\ Tree[NodeOf(q) + 1].IsLeaf >= 0 <=> IsPattern(q)
              /\ IsPattern(q) => Tree[NodeOf(q) + 1].IsLeaf \in IndicesOf(q)

(* after a Reset and queries: the empty string is a pattern, so the root   *)
(* is a leaf, and two patterns share a prefix that is no pattern           *)
C17_Witness ==
    /\ built /\ fault = "none" /\ nr >= 1 /\ nq = MaxQueries
    /\ Tree[1].IsLeaf >= 0
    /\ \E q \in Prefixes : q # << >> /\ ~IsPattern(q)
    /\ \E n \in 1..Len(Tree) : Tree[n].Go # -1

(* the rows of Ways and the nodes that own them *)
Owners ==
    {<<n, "Next">> : n \in {k \in 1..Len(Tree) : Tree[k].Next # -1}}
        \cup {<<n, "Go">> : n \in {k \in 1..Len(Tree) : Tree[k].Go # -1}}
RowAt(o) == IF o[2] = "Next" THEN Tree[o[1]].Next ELSE Tree[o[1]].Go
RowsDisjointInBounds ==
    \A o \in Owners :
        /\ RowAt(o) >= 0 /\ RowAt(o) + CodeSize <= Len(Ways)
        /\ \A p \in Owners \ {o} :
              RowAt(p) + CodeSize <= RowAt(o) \/ RowAt(o) + CodeSize <= RowAt(p)
SharedGoRow ==
    \E n1, n2 \in 1..Len(Tree) : n1 # n2 /\ Tree[n1].Go # -1 /\ Tree[n1].Go = Tree[n2].Go
BothReturned == threads.phase # "none" /\ \A t \in Thread : threads.th[t].status = "done"
(* the two calls made one after the other, t first, on the members the     *)
(* callers started from                                                    *)
OneAfterTheOther(t, u) ==
    LET first == SwitchState(threads.start, threads.th[t].c, threads.th[t].v, -1)
        second == SwitchState(first.m, threads.th[u].c, threads.th[u].v, -1)
    IN /\ Tree = second.m.Tree /\ Ways = second.m.Ways
       /\ threads.th[t].ret = first.ret /\ threads.th[u].ret = second.ret
SingleThreaded == SwitchState(Constructed(words), arg.c, arg.v, -1).ret

(* C18: two SwitchState calls on one automaton that run one after the      *)
(* other meet no undefined read, leave every node with its own row of Ways *)
(* inside the array, disjoint from every other row, leave the members and  *)
(* return the states that the calls made in that order give, and the next  *)
(* query returns the single-threaded result.  (That an interleaving of the *)
(* two calls leaves two nodes owning one goto row, after which a query     *)
(* returns another result, is the reachable state C18_Witness.)            *)
C18_OneAfterTheOtherIsSafe ==
    (threads.phase # "none" /\ ~threads.mixed) =>
        /\ fault = "none"
        /\ (\A t \in Thread : threads.th[t].status # "running") => RowsDisjointInBounds
        /\ (BothReturned /\ threads.phase = "race") =>
              OneAfterTheOther(1, 2) \/ OneAfterTheOther(2, 1)
        /\ (BothReturned /\ threads.phase = "after") => ret.st = SingleThreaded

(* the two calls overlapped, both read the size of Ways before either      *)
(* appended its row, two nodes own the same goto row, and the query made   *)
(* afterwards returns a state of another node than single-threaded         *)
C18_Witness ==
    /\ threads.phase = "after" /\ threads.mixed /\ fault = "none"
    /\ SharedGoRow
    /\ ret.st.Idx # SingleThreaded.Idx

(* C19: a state handed out by the public interface carries the depth and   *)
(* the leaf marker of the node it refers to: the states GetState,          *)
(* SwitchState and GetLink return, and the initial state TState() that     *)
(* HasString, HasPrefix and SearchIn start from.  Fails for GetLink, which *)
(* returns the link's index with the depth of its argument's node, and for *)
(* TState() when the empty string is a pattern.                            *)
C19_StateMatchesNode ==
    (built /\ fault = "none") =>
        /\ op \in {"GetState", "SwitchState", "GetLink"} =>
              ret.st = StateOf(Members, ret.st.Idx)
        /\ op \in {"HasString", "HasPrefix", "SearchIn"} =>
              DefaultState = StateOf(Members, 0)

(* C20: an object made by TAhoCorasick() and queried before any Reset      *)
(* behaves as one built from no patterns: CodeSize is 0, no query reads an *)
(* entry of CodeMap that was never written, SwitchState and GetState       *)
(* return the initial state, HasString is false, HasPrefix is true for the *)
(* empty string only, SearchIn reports nothing.  Fails: the constructor    *)
(* leaves CodeMap unwritten and every query on a symbol reads it.          *)
C20_DefaultIsEmpty ==
    ~built =>
        /\ CodeSize = 0
        /\ fault = "none"
        /\ op \in {"GetState", "SwitchState"} => ret.st = DefaultState
        /\ op = "HasString" => ret.b = FALSE
        /\ op = "HasPrefix" => (ret.b <=> arg.s = << >>)
        /\ op = "SearchIn" => ret.res = << >>

====
